---- MODULE Spec2Model ----
(***************************************************************************)
(* f-sync: Fitbit -> Strava activity synchronisation.                      *)
(*                                                                         *)
(* The model covers the credential store (user_tokens / user_activity),    *)
(* the two token-refresh decorators, the celery task                       *)
(* upload_latest_activities with process_activity, the webhook endpoint    *)
(* that schedules the tasks and answers the subscriber handshake, and the  *)
(* OAuth routes that register a user.  The two providers are the           *)
(* environment: they hold the activities and decide which tokens they      *)
(* accept.  Times are whole days; the far-past default of the watermark    *)
(* (2000-01-01) is day 0.                                                  *)
(***************************************************************************)
EXTENDS Integers, Sequences, FiniteSets, TLC

(***************************************************************************)
(* Bounds of the model.                                                    *)
(***************************************************************************)
Users == {"U1", "U2"}
Workers == {1, 2}
MaxNow == 2          \* last day on which an activity is recorded
MaxGen == 2          \* token pairs a provider issues per user
MaxQueue == 2        \* pending tasks per user in the celery queue
MaxBatch == 2        \* entries in one webhook notification
MaxUploads == 2      \* uploads of one activity the destination accepts

(***************************************************************************)
(* Program constants.                                                      *)
(***************************************************************************)
HorizonDays == 3     \* datetime.timedelta(days=-3)
WatermarkDefault == 0 \* DEFAULT date '2000-01-01'
OK == 200
CREATED == 201
UNAUTHORIZED == 401
SERVER_ERROR == 500
BAD_REQUEST == 400
NO_CONTENT == 204
NOT_FOUND == 404
FOUND == 302         \* flask.redirect

None == "None"
Providers == {"fitbit", "strava"}

VARIABLES
    user_tokens,     \* table user_tokens: fitbit_id -> the four tokens
    user_activity,   \* table user_activity: fitbit_id -> the watermark
    issued,          \* provider side: generation of the pair last issued
    live,            \* provider side: the current access token has not expired
    fitbitActs,      \* source provider: the activities of each user
    stravaUploads,   \* destination: number of accepted uploads per activity
    now,             \* the current day
    queue,           \* celery queue: pending upload_latest_activities per user
    task,            \* one record per celery worker: the task it runs
    lastPost,        \* history: the last webhook POST and what it scheduled
    handshake,       \* history: the last webhook GET and its answer
    session,         \* the flask session of the browser that registers
    completed,       \* history: the authorization flows each user completed
    lastAuth,        \* history: the last request to an OAuth route and its answer
    lastCreate       \* history: the last call of database_create_user

\* the state of the web front end besides the webhook POST
web == <<handshake, session, completed, lastAuth, lastCreate>>

vars == <<user_tokens, user_activity, issued, live, fitbitActs, stravaUploads,
          now, queue, task, lastPost, web>>

(***************************************************************************)
(* Helpers.                                                                *)
(***************************************************************************)
Max(a, b) == IF a >= b THEN a ELSE b

MaxOf(S) == CHOOSE x \in S : \A y \in S : y <= x

MinOf(S) == CHOOSE x \in S : \A y \in S : x <= y

\* the numbers of S in ascending order
RECURSIVE SortAsc(_)
SortAsc(S) == IF S = {} THEN <<>> ELSE <<MinOf(S)>> \o SortAsc(S \ {MinOf(S)})

Response(status, body) == [status_code |-> status, body |-> body]

NoResponse == Response(0, <<>>)

(***************************************************************************)
(* Credential store: the columns of user_tokens.                           *)
(***************************************************************************)
AccessColumn_shared(p) == "fitbit_access_token"

AccessColumn(p) == IF p = "fitbit" THEN "fitbit_access_token" ELSE "strava_access_token"

RefreshColumn(p) == IF p = "fitbit" THEN "fitbit_refresh_token" ELSE "strava_refresh_token"

\* a row whose four token columns hold generation g of each provider
TokenRow(fa, fr, sa, sr) ==
    [fitbit_access_token |-> fa, fitbit_refresh_token |-> fr,
     strava_access_token |-> sa, strava_refresh_token |-> sr]

database_user_check(u) == u \in DOMAIN user_tokens

\* get_fitbit_access_token / get_strava_access_token (fetchone()[0])
get_access_token(p, u) == user_tokens[u][AccessColumn(p)]

\* get_fitbit_refresh_token / get_strava_refresh_token
get_refresh_token(p, u) == user_tokens[u][RefreshColumn(p)]

\* update_fitbit_tokens / update_strava_tokens: one UPDATE ... WHERE fitbit_id
\* sets both columns of the provider from the same response; no row, no change
\* fitbit_api.py 73, 77 / strava_api.py 69, 73: the refresh token column is
\* set from the refresh_token of the response
refresh_token_stored_unchanged(old, g) == old

refresh_token_stored(old, g) == g

update_tokens_allRows(tokens, p, u, g) ==
    [v \in DOMAIN tokens |->
        [tokens[v] EXCEPT ![AccessColumn(p)] = g, ![RefreshColumn(p)] = g]]

update_tokens(tokens, p, u, g) ==
    IF u \notin DOMAIN tokens THEN tokens
    ELSE [tokens EXCEPT ![u][AccessColumn(p)] = g,
                        ![u][RefreshColumn(p)] = refresh_token_stored(@, g)]

(***************************************************************************)
(* The providers.  A token is the generation of the pair it belongs to;    *)
(* a provider accepts the access token of the pair it issued last until    *)
(* that token expires, and the refresh token of the pair it issued last.   *)
(***************************************************************************)
AccessAccepted(p, u, g) == g # 0 /\ g = issued[u][p] /\ live[u][p]

RefreshAccepted(p, u, g) == g # 0 /\ g = issued[u][p]

Activity(start, logType, gps) ==
    [logId |-> start, startTime |-> start, logType |-> logType, gps |-> gps]

ActivityKinds == {<<"tracker", TRUE>>, <<"tracker", FALSE>>, <<"manual", FALSE>>}

StartTimes(acts) == {a.startTime : a \in acts}

ActivityAt(acts, s) == CHOOSE a \in acts : a.startTime = s

\* the activities of acts in ascending order of start time
AscendingByStart(acts) ==
    LET order == SortAsc(StartTimes(acts))
    IN  [i \in 1..Len(order) |-> ActivityAt(acts, order[i])]

\* activities/list.json?beforeDate=today+5&sort=desc&limit=1
FitbitMostRecent(u) ==
    IF fitbitActs[u] = {} THEN <<>>
    ELSE <<ActivityAt(fitbitActs[u], MaxOf(StartTimes(fitbitActs[u])))>>

\* activities/list.json?afterDate=after_date&sort=asc
FitbitAfterDate(u, after_date) ==
    AscendingByStart({a \in fitbitActs[u] : a.startTime > after_date})

\* the days on which the destination holds an activity of the user
StravaDays(u) == {d \in DOMAIN stravaUploads[u] : stravaUploads[u][d] > 0}

\* athlete/activities?per_page=1
StravaMostRecent(u) ==
    IF StravaDays(u) = {} THEN <<>>
    ELSE <<[start_date |-> MaxOf(StravaDays(u))]>>

(***************************************************************************)
(* The celery task upload_latest_activities and the wrapped provider calls *)
(* it makes.  pc is the call or database step the task is at; ph is the    *)
(* position inside refresh_api_call.                                       *)
(***************************************************************************)
NoDate == -1

CallSites == {"most_recent", "strava_recent", "after_date", "tcx", "upload"}

Finished == {"idle", "done", "raised"}

SiteProvider(site) == IF site \in {"strava_recent", "upload"} THEN "strava" ELSE "fitbit"

SuccessStatus(site) == IF site = "upload" THEN CREATED ELSE OK

NoInvocation ==
    [site |-> "-", execs |-> 0, refreshes |-> 0, first |-> NoResponse,
     last |-> NoResponse, ret |-> NoResponse, outcome |-> "-",
     token |-> 0]                 \* the access token of the last execution

IdleTask ==
    [pc |-> "idle", ph |-> "-", fitbit_id |-> None,
     response |-> NoResponse,     \* refresh_api_call: response
     pair |-> 0,                  \* fitbit_refresh_tokens: response.json()
     latest |-> NoDate,           \* latest_fitbit_timestamp
     after |-> NoDate,            \* latest_strava_date
     todo |-> <<>>,               \* activities the for loop has not finished
     tcx |-> NoDate,              \* process_activity: tcx_response.content
     succ |-> NoDate,             \* successful_fitbit_upload_date
     inv |-> NoInvocation,        \* history of the current wrapped invocation
     attempts |-> 0,              \* history: upload requests of this run
     nsucc |-> 0,                 \* history: uploads answered 201 in this run
     wrote |-> FALSE,             \* history: this run wrote the watermark
     refreshFailed |-> "-",       \* history: how a refresh exchange of the run failed
     raced |-> FALSE,             \* history: the run sent a refresh token that
                                  \* another exchange had used up
     prev |-> "off",              \* history: outcome of the user's previous run
     prevFailed |-> FALSE,        \* history: an upload of that run was refused
     quiet |-> FALSE,             \* history: no new activity since this run began
     srcSame |-> FALSE]           \* history: nor since the previous run began

\* app.py 200, 206: what the loop uploads
Eligible_trackerOnly(a) == a.logType = "tracker"

Eligible(a) == a.logType = "tracker" /\ a.gps

\* the continue statements of the loop: drop the activities it skips
RECURSIVE SkipIneligible(_)
SkipIneligible(todo) ==
    IF todo = <<>> THEN <<>>
    ELSE IF Eligible(Head(todo)) THEN todo
    ELSE SkipIneligible(Tail(todo))

\* app.py 222: the watermark is written only after a successful upload
ShouldWrite_always(succ) == TRUE

ShouldWrite(succ) == succ # NoDate

\* the task ends: return (done) or an exception nobody catches (raised)
EndTask(tk, how) ==
    [tk EXCEPT !.pc = how, !.ph = "-", !.response = NoResponse, !.pair = 0,
               !.todo = <<>>, !.tcx = NoDate]

\* the for loop moves to the next activity it uploads, or ends
LoopNext(tk, rest) ==
    LET todo == SkipIneligible(rest)
    IN  IF todo # <<>>
        THEN [tk EXCEPT !.pc = "tcx", !.ph = "call", !.todo = todo, !.tcx = NoDate]
        ELSE IF ShouldWrite(tk.succ)
        THEN [tk EXCEPT !.pc = "write_wm", !.ph = "-", !.todo = <<>>, !.tcx = NoDate]
        ELSE EndTask(tk, "done")

\* app.py 163-180: the lower bound of the window
latest_strava_date_destinationOnly(today, body) ==
    IF Len(body) = 0 THEN today - HorizonDays
    ELSE body[1].start_date

latest_strava_date(today, body) ==
    IF Len(body) = 0 THEN today - HorizonDays
    ELSE Max(today - HorizonDays, body[1].start_date)

\* app.py 86: process_activity takes the upload as made
upload_created_any(status) == TRUE

upload_created(status) == status = CREATED

\* app.py 213-216: process_activity returned False; the for loop goes on
after_failed_activity_endsRun(tk) == EndTask(tk, "done")

after_failed_activity(tk) == LoopNext(tk, Tail(tk.todo))

\* app.py 215-219: process_activity returned True; the date is kept and
\* the for loop goes on, the UPDATE comes behind the loop
after_uploaded_activity_writesFirst(tk) ==
    [tk EXCEPT !.succ = Head(tk.todo).startTime, !.pc = "write_wm", !.ph = "-"]

after_uploaded_activity(tk) ==
    LoopNext([tk EXCEPT !.succ = Head(tk.todo).startTime], Tail(tk.todo))

\* app.py 120, 158, 190: the status tests that end the run
call_failed_ignored(r) == FALSE

call_failed(r) == r.status_code # OK

\* what the caller does with the response a wrapped call returned
AfterCall(tk, r, today) ==
    CASE tk.pc = "most_recent" ->
           IF call_failed(r) THEN EndTask(tk, "done")
           ELSE IF Len(r.body) = 0 THEN EndTask(tk, "done")
           ELSE [tk EXCEPT !.pc = "check_wm", !.ph = "-",
                           !.latest = r.body[1].startTime,
                           !.srcSame = tk.prev \notin {"off", "none"} /\ tk.quiet]
      [] tk.pc = "strava_recent" ->
           IF call_failed(r) THEN EndTask(tk, "done")
           ELSE [tk EXCEPT !.pc = "after_date", !.ph = "call",
                           !.after = latest_strava_date(today, r.body)]
      [] tk.pc = "after_date" ->
           IF call_failed(r) THEN EndTask(tk, "done")
           ELSE LoopNext([tk EXCEPT !.succ = NoDate], r.body)
      [] tk.pc = "tcx" ->
           IF r.status_code # OK THEN after_failed_activity(tk)
           ELSE [tk EXCEPT !.pc = "upload", !.ph = "call",
                           !.tcx = r.body[1].logId]
      [] tk.pc = "upload" ->
           IF ~upload_created(r.status_code) THEN after_failed_activity(tk)
           ELSE after_uploaded_activity(tk)

(***************************************************************************)
(* refresh_api_call, the body of both token-refresh decorators.            *)
(***************************************************************************)
\* what the provider holds for the request of the call site
ApiAnswer(tk) ==
    CASE tk.pc = "most_recent" -> FitbitMostRecent(tk.fitbit_id)
      [] tk.pc = "strava_recent" -> StravaMostRecent(tk.fitbit_id)
      [] tk.pc = "after_date" -> FitbitAfterDate(tk.fitbit_id, tk.after)
      [] tk.pc = "tcx" -> <<Head(tk.todo)>>
      [] tk.pc = "upload" -> <<>>

\* fitbit_api.py 270, 282: each execution of the wrapped function reads the
\* access token from the store and sends it
token_sent_cached(tk, stored) == IF tk.ph = "retry" THEN tk.inv.token ELSE stored

token_sent(tk, stored) == stored

\* one execution of the wrapped function: it reads the access token from the
\* store and sends the request; the provider may be failing (outcome "err")
api_call(tk, outcome) ==
    LET p == SiteProvider(tk.pc)
        u == tk.fitbit_id
    IN  IF outcome = "err" THEN Response(SERVER_ERROR, <<>>)
        ELSE IF ~AccessAccepted(p, u, token_sent(tk, get_access_token(p, u)))
        THEN Response(UNAUTHORIZED, <<>>)
        ELSE Response(SuccessStatus(tk.pc), ApiAnswer(tk))

\* line 159/149: response = api_call(*args, **kwargs)
Resubmit_dropped(old, new) == old

Resubmit(old, new) == new

\* lines 158-161 / 148-151: after the resubmission the response is returned
RefreshAgain_loop(response) == response.status_code = UNAUTHORIZED

RefreshAgain(response) == FALSE

\* fitbit_refresh_tokens / strava_refresh_tokens: status 200 stores the
\* tokens, anything else raises HTTPError; a body without one of the two
\* tokens raises KeyError in update_*_tokens (lines 72-73 / 68-69)
AfterExchange_swallowed(outcome) == IF outcome = "ok" THEN "store" ELSE "retry"

AfterExchange(outcome) == IF outcome = "ok" THEN "store" ELSE "raised"

\* what a failed exchange leaves in user_tokens: the else branch and the
\* KeyError both come before any UPDATE
failed_exchange_tokens_cleared(tokens, p, u) == update_tokens(tokens, p, u, 0)

failed_exchange_tokens(tokens, p, u) == tokens

SetTask(t, new) == task' = [task EXCEPT ![t] = new]

Exec(t, outcome) ==
    LET tk == task[t]
        u == tk.fitbit_id
    IN  /\ tk.pc \in CallSites
        /\ tk.ph \in {"call", "retry"}
        /\ IF ~database_user_check(u)
           THEN \* fetchone() is None: TypeError
                /\ outcome = "ok"
                /\ SetTask(t, EndTask(tk, "raised"))
                /\ UNCHANGED stravaUploads
           ELSE LET r == api_call(tk, outcome)
                    accepted == tk.pc = "upload" /\ r.status_code = CREATED
                    sent == token_sent(tk, get_access_token(SiteProvider(tk.pc), u))
                    inv == IF tk.ph = "call"
                           THEN [site |-> tk.pc, execs |-> 1, refreshes |-> 0,
                                 first |-> r, last |-> r, ret |-> NoResponse,
                                 outcome |-> "running", token |-> sent]
                           ELSE [tk.inv EXCEPT !.execs = @ + 1, !.last = r,
                                               !.token = sent]
                    resp == IF tk.ph = "call" THEN r ELSE Resubmit(tk.response, r)
                    refresh == IF tk.ph = "call"
                               THEN r.status_code = UNAUTHORIZED
                               ELSE RefreshAgain(resp)
                    t1 == [tk EXCEPT !.response = resp, !.inv = inv,
                             !.attempts = IF tk.pc = "upload" THEN @ + 1 ELSE @,
                             !.nsucc = IF accepted THEN @ + 1 ELSE @]
                    t2 == [t1 EXCEPT !.inv.ret = resp, !.inv.outcome = "returned"]
                IN  /\ accepted => stravaUploads[u][tk.tcx] < MaxUploads
                    /\ stravaUploads' =
                         IF accepted
                         THEN [stravaUploads EXCEPT ![u][tk.tcx] = @ + 1]
                         ELSE stravaUploads
                    /\ IF refresh
                       THEN SetTask(t, [t1 EXCEPT !.ph = "refresh"])
                       ELSE SetTask(t, AfterCall(t2, resp, now))
        /\ UNCHANGED <<user_tokens, user_activity, issued, live, fitbitActs,
                       now, queue, lastPost, web>>

\* the refresh exchange: the stored refresh token is sent to the token
\* endpoint, which answers 200 with a new pair ("ok"), another status
\* ("fail"), or 200 without one of the tokens ("missing")
Refresh(t, outcome) ==
    LET tk == task[t]
        u == tk.fitbit_id
        p == SiteProvider(tk.pc)
        t1 == [tk EXCEPT !.inv.refreshes = @ + 1]
    IN  /\ tk.pc \in CallSites
        /\ tk.ph = "refresh"
        /\ IF ~database_user_check(u)
           THEN /\ outcome = "fail"
                /\ SetTask(t, EndTask([t1 EXCEPT !.inv.outcome = "raised"], "raised"))
                /\ UNCHANGED <<issued, live, user_tokens>>
           ELSE /\ outcome = "ok" =>
                     /\ RefreshAccepted(p, u, get_refresh_token(p, u))
                     /\ issued[u][p] < MaxGen
                /\ IF outcome = "ok"
                   THEN /\ issued' = [issued EXCEPT ![u][p] = @ + 1]
                        /\ live' = [live EXCEPT ![u][p] = TRUE]
                        /\ user_tokens' = user_tokens
                   ELSE /\ UNCHANGED <<issued, live>>
                        /\ user_tokens' = failed_exchange_tokens(user_tokens, p, u)
                /\ LET next == AfterExchange(outcome)
                       t2 == [t1 EXCEPT !.refreshFailed =
                                          IF outcome # "ok" THEN outcome ELSE @,
                                        !.raced =
                                          \/ @
                                          \/ ~RefreshAccepted(p, u,
                                                 get_refresh_token(p, u))]
                   IN  IF next = "raised"
                       THEN SetTask(t, EndTask([t2 EXCEPT !.inv.outcome = "raised"],
                                               "raised"))
                       ELSE SetTask(t, [t2 EXCEPT !.ph = next,
                                          !.pair = IF outcome = "ok"
                                                   THEN issued[u][p] + 1 ELSE 0])
        /\ UNCHANGED <<user_activity, fitbitActs, stravaUploads, now, queue,
                       lastPost, web>>

\* fitbit_api.py 118-119 / strava_api.py 108-109: the tokens of the response
\* are stored
store_exchange_skipped(tokens, p, u, g) == tokens

store_exchange(tokens, p, u, g) == update_tokens(tokens, p, u, g)

\* update_fitbit_tokens / update_strava_tokens with the new pair
Store(t) ==
    LET tk == task[t]
    IN  /\ tk.pc \in CallSites
        /\ tk.ph = "store"
        /\ user_tokens' = store_exchange(user_tokens, SiteProvider(tk.pc),
                                         tk.fitbit_id, tk.pair)
        /\ SetTask(t, [tk EXCEPT !.ph = "retry", !.pair = 0])
        /\ UNCHANGED <<user_activity, issued, live, fitbitActs, stravaUploads,
                       now, queue, lastPost, web>>

(***************************************************************************)
(* The database steps of upload_latest_activities.                         *)
(***************************************************************************)
\* app.py 149: latest_fitbit_timestamp == sql_fitbit_timestamp_result
already_seen_older(latest, stored) == latest < stored

already_seen(latest, stored) == latest = stored

\* app.py 150-153: the return when the timestamp has been seen
no_new_activity_continues(tk) == [tk EXCEPT !.pc = "strava_recent", !.ph = "call"]

no_new_activity(tk) == EndTask(tk, "done")

\* app.py 140-153: SELECT the watermark and compare it for equality
CheckWatermark(t) ==
    LET tk == task[t]
        u == tk.fitbit_id
    IN  /\ tk.pc = "check_wm"
        /\ IF u \notin DOMAIN user_activity
           THEN SetTask(t, EndTask(tk, "raised"))
           ELSE IF already_seen(tk.latest, user_activity[u])
           THEN SetTask(t, no_new_activity(tk))
           ELSE SetTask(t, [tk EXCEPT !.pc = "strava_recent", !.ph = "call"])
        /\ UNCHANGED <<user_tokens, user_activity, issued, live, fitbitActs,
                       stravaUploads, now, queue, lastPost, web>>

\* app.py 228: the value the UPDATE stores
watermark_value_lastUploaded(tk) == tk.succ

watermark_value(tk) == tk.latest

\* app.py 224-230: UPDATE user_activity SET fitbit_latest_activity_date
WriteWatermark(t) ==
    LET tk == task[t]
        u == tk.fitbit_id
    IN  /\ tk.pc = "write_wm"
        /\ user_activity' = IF u \notin DOMAIN user_activity THEN user_activity
                            ELSE [user_activity EXCEPT ![u] = watermark_value(tk)]
        /\ SetTask(t, EndTask([tk EXCEPT !.wrote = TRUE], "done"))
        /\ UNCHANGED <<user_tokens, issued, live, fitbitActs, stravaUploads,
                       now, queue, lastPost, web>>

\* history: how the run that the worker finished before ended, when it was
\* a run of the same user and the source has not changed since it began
PreviousRun(old, u) ==
    IF old.fitbit_id # u \/ old.pc \notin {"done", "raised"} \/ ~old.quiet
    THEN "none"
    ELSE IF old.wrote THEN "wrote"
    ELSE IF old.attempts > 0 THEN "attempted"
    ELSE "nowrite"

\* history: the run that the worker finished before was a run of the same
\* user in which the destination refused an upload, and the source has not
\* changed since
PreviousFailed(old, u) ==
    /\ old.fitbit_id = u
    /\ old.pc \in {"done", "raised"}
    /\ old.quiet
    /\ old.attempts > old.nsucc

\* a worker begins upload_latest_activities(fitbit_id=u): with a task of the
\* queue, or with one the dispatcher hands to it directly
Begin(t, u, history, queued) ==
    /\ task[t].pc \in Finished
    /\ queued => queue[u] > 0
    /\ queue' = IF queued THEN [queue EXCEPT ![u] = @ - 1] ELSE queue
    /\ task' = [task EXCEPT ![t] =
                  [IdleTask EXCEPT !.pc = "most_recent", !.ph = "call",
                                   !.fitbit_id = u,
                                   !.prev = IF history THEN PreviousRun(task[t], u)
                                            ELSE "off",
                                   !.prevFailed = history /\ PreviousFailed(task[t], u),
                                   !.quiet = history]]
    /\ UNCHANGED <<user_tokens, user_activity, issued, live, fitbitActs,
                   stravaUploads, now, lastPost, web>>

\* a worker takes a task that the webhook put in the queue
StartTask(t, u) == Begin(t, u, FALSE, TRUE)

\* the dispatcher delivers a task to a free worker, as often as it likes
\* (at-least-once delivery): runs of one user overlap
Deliver(t, u) == Begin(t, u, FALSE, FALSE)

\* the tasks are delivered one after another, and the history of the runs
\* is kept
DeliverInSuccession(t, u) ==
    /\ \A w \in Workers : task[w].pc \in Finished
    /\ Begin(t, u, TRUE, FALSE)

(***************************************************************************)
(* The webhook endpoint /fitbit-notifications, POST.                       *)
(***************************************************************************)
CLIENT_SECRET == "secret"

\* hmac.digest(key, body, sha1) as an ideal hash: the digest determines the
\* key and the body
hmac_digest(key, body) == [key |-> key, msg |-> body]

b64encode(digest) == [b64 |-> digest]

\* fitbit_api.py 337-345; header is <<>> when X-Fitbit-Signature is missing
fitbit_validate_signature_keyOnly(data, header) ==
    header # <<>> /\ header[1].b64.key = <<CLIENT_SECRET, "&">>

fitbit_validate_signature(data, header) ==
    LET value == b64encode(hmac_digest(<<CLIENT_SECRET, "&">>, data))
    IN  header = <<value>>

Message(collectionType, ownerType, ownerId) ==
    [collectionType |-> collectionType, ownerType |-> ownerType,
     ownerId |-> ownerId]

\* notifications about a user's activities, one without ownerId, one of
\* another collection and one of another owner type
Messages ==
    {Message("activities", "user", i) : i \in Users \cup {None}}
        \cup {Message("sleep", "user", "U1"), Message("activities", "other", "U1")}

Batches == UNION {[1..n -> Messages] : n \in 0..MaxBatch}

Matching_anyOwnerType(messages) ==
    {i \in 1..Len(messages) : messages[i].collectionType = "activities"}

Matching(messages) ==
    {i \in 1..Len(messages) : /\ messages[i].collectionType = "activities"
                              /\ messages[i].ownerType = "user"}

\* app.py 247-252: the set of owner ids of the matching messages
notification_ids(messages) == {messages[i].ownerId : i \in Matching(messages)}

\* app.py 255-257: the .delay() calls made for user u
TasksFor_perMessage(messages, u) ==
    Cardinality({i \in Matching(messages) : messages[i].ownerId = u})

TasksFor(messages, u) ==
    Cardinality({id \in notification_ids(messages) : id # None /\ id = u})

NoPost == [data |-> <<>>, header |-> <<>>, valid |-> FALSE,
           named |-> [u \in Users |-> 0],
           scheduled |-> [u \in Users |-> 0], status |-> 0]

\* the X-Fitbit-Signature headers a request may carry: none, the signature
\* of its body, a signature made with another key
Headers(data) ==
    {<<>>, <<b64encode(hmac_digest(<<CLIENT_SECRET, "&">>, data))>>,
     <<b64encode(hmac_digest(<<"other", "&">>, data))>>}

\* a header taken from a request with another body (the empty batch)
ReplayedHeaders == {<<b64encode(hmac_digest(<<CLIENT_SECRET, "&">>, <<>>))>>}

\* app.py 241, 258, 263: the answer of the POST
PostStatus_always204(valid) == NO_CONTENT

PostStatus(valid) == IF valid THEN NO_CONTENT ELSE BAD_REQUEST

WebhookPost(data, header) ==
    LET valid == fitbit_validate_signature(data, header)
        n == [u \in Users |-> IF valid THEN TasksFor(data, u) ELSE 0]
    IN  /\ \A u \in Users : queue[u] + n[u] <= MaxQueue
        /\ queue' = [u \in Users |-> queue[u] + n[u]]
        /\ lastPost' = [data |-> data, header |-> header, valid |-> valid,
                        named |-> [u \in Users |->
                            Cardinality({i \in Matching(data) : data[i].ownerId = u})],
                        scheduled |-> n,
                        status |-> PostStatus(valid)]
        /\ UNCHANGED <<user_tokens, user_activity, issued, live, fitbitActs,
                       stravaUploads, now, task, web>>

(***************************************************************************)
(* The webhook endpoint /fitbit-notifications, GET: the subscriber         *)
(* verification handshake.                                                 *)
(***************************************************************************)
VERIFICATION_CODE == "code"

\* os.getenv("FITBIT_SUBSCRIPTION_VERIFICATION_CODE"): None when the
\* variable is not set
Configured == {None, VERIFICATION_CODE}

\* request.args.get("verify"): None when the request has no such parameter
VerifyArgs == {None, VERIFICATION_CODE, "wrong"}

NoGet == [configured |-> None, verify |-> None, status |-> 0]

\* app.py 266-271
webhook_verify(verification_code, configured) ==
    IF verification_code = configured THEN NO_CONTENT ELSE NOT_FOUND

WebhookGet(verify, configured) ==
    /\ handshake' = [configured |-> configured, verify |-> verify,
                     status |-> webhook_verify(verify, configured)]
    /\ UNCHANGED <<user_tokens, user_activity, issued, live, fitbitActs,
                   stravaUploads, now, queue, task, lastPost, session, completed,
                   lastAuth, lastCreate>>

(***************************************************************************)
(* Registration: the two OAuth flows of one browser session.  The state    *)
(* and PKCE secrets of the session are either set or not; a redirect back  *)
(* from a provider carries the matching state or it does not.              *)
(***************************************************************************)
\* the flask session of a browser that has not visited /auth/fitbit
NoSession ==
    [oauth2_fitbit_state |-> FALSE, pkce_code |-> FALSE, fitbit_id |-> None,
     oauth2_strava_state |-> FALSE]

\* history of a request: the route, the answer of the token endpoint and of
\* the subscription call it received, if it got that far, and its status
NoReply == [route |-> "-", status |-> 0, exchange |-> "-", subscription |-> 0]

Reply(route, status) == [NoReply EXCEPT !.route = route, !.status = status]

\* the query of a redirect back from a provider: an error, a state that is
\* not the one of the session, no code, or the state of the session and a
\* code
RedirectArgs == {"error", "bad_state", "no_code", "code"}

\* the answer of a token endpoint to the authorization-code exchange
Exchanges == {"ok", "status", "no_access_token", "no_refresh_token", "no_user_id"}

\* the INSERT of a row that names only fitbit_id: it is stored with empty
\* token columns, or the table rejects it (the token columns of init_db.py
\* are NOT NULL and have no default)
Inserts == {"inserted", "not_null_violation"}

\* app.py 357-383, 484-503: the exchange passes when its status is 200 and
\* the body has every field the route reads
exchange_accepted_anyBody(exchange) == exchange # "status"

exchange_accepted(exchange) == exchange = "ok"

\* app.py 511-523: the subscription statuses that complete the registration
subscription_accepted_createdOnly(status) == status = CREATED

subscription_accepted(status) == status \in {CREATED, OK}

\* database_utils.py 87-89: INSERT INTO user_tokens (fitbit_id)
insert_user_tokens(tokens, u) ==
    [v \in DOMAIN tokens \cup {u} |->
        IF v \in DOMAIN tokens THEN tokens[v] ELSE TokenRow(0, 0, 0, 0)]

\* database_utils.py 90-92: INSERT INTO user_activity (fitbit_id)
insert_user_activity_skipped(activity, u) == activity

insert_user_activity(activity, u) ==
    [v \in DOMAIN activity \cup {u} |->
        IF v \in DOMAIN activity THEN activity[v] ELSE WatermarkDefault]

NoCreate == [fitbit_id |-> None, user_added |-> "-"]

\* database_utils.py 62-95: the two tables after the call and what it
\* returns; both INSERTs belong to one transaction, which an exception
\* rolls back
database_create_user(tokens, activity, u, insert) ==
    IF u \in DOMAIN tokens
    THEN [tokens |-> tokens, activity |-> activity, user_added |-> "False"]
    ELSE IF insert = "not_null_violation"
    THEN [tokens |-> tokens, activity |-> activity, user_added |-> "raised"]
    ELSE [tokens |-> insert_user_tokens(tokens, u),
          activity |-> insert_user_activity(activity, u),
          user_added |-> "True"]

\* a call of database_create_user(fitbit_id=u)
CreateUser(u, insert) ==
    LET created == database_create_user(user_tokens, user_activity, u, insert)
    IN  /\ user_tokens' = created.tokens
        /\ user_activity' = created.activity
        /\ lastCreate' = [fitbit_id |-> u, user_added |-> created.user_added]
        /\ UNCHANGED <<issued, live, fitbitActs, stravaUploads, now, queue,
                       task, lastPost, handshake, session, completed, lastAuth>>

\* app.py 281-302: /auth/fitbit
fitbit_oauth ==
    /\ session' = [session EXCEPT !.pkce_code = TRUE, !.oauth2_fitbit_state = TRUE]
    /\ lastAuth' = Reply("fitbit_oauth", FOUND)
    /\ UNCHANGED <<user_tokens, user_activity, issued, live, fitbitActs,
                   stravaUploads, now, queue, task, lastPost, handshake,
                   completed, lastCreate>>

\* app.py 305-402: /auth_verify/fitbit; u is the user_id of the token response
fitbit_oauth_verify(u, args, exchange, insert) ==
    LET passed == /\ args = "code"
                  /\ session.oauth2_fitbit_state
                  /\ session.pkce_code
        pair == issued[u]["fitbit"] + 1
        present == database_user_check(u)
        made == [Reply("fitbit_oauth_verify", 0) EXCEPT !.exchange = exchange]
        created == database_create_user(user_tokens, user_activity, u, insert)
    IN  /\ (passed /\ exchange_accepted(exchange)) => issued[u]["fitbit"] < MaxGen
        /\ present => insert = "inserted"
        /\ IF args = "error"
           THEN /\ lastAuth' = Reply("fitbit_oauth_verify", FOUND)
                /\ UNCHANGED <<user_tokens, user_activity, issued, live,
                               session, completed, lastCreate>>
           ELSE IF ~passed
           THEN /\ lastAuth' = Reply("fitbit_oauth_verify", UNAUTHORIZED)
                /\ UNCHANGED <<user_tokens, user_activity, issued, live,
                               session, completed, lastCreate>>
           ELSE IF ~exchange_accepted(exchange)
           THEN /\ lastAuth' = [made EXCEPT !.status = UNAUTHORIZED]
                /\ UNCHANGED <<user_tokens, user_activity, issued, live,
                               session, completed, lastCreate>>
           ELSE /\ issued' = [issued EXCEPT ![u]["fitbit"] = pair]
                /\ live' = [live EXCEPT ![u]["fitbit"] = TRUE]
                /\ session' = [session EXCEPT !.fitbit_id = u]
                /\ lastCreate' = [fitbit_id |-> u,
                                  user_added |-> created.user_added]
                /\ IF created.user_added = "raised"
                   THEN /\ lastAuth' = [made EXCEPT !.status = SERVER_ERROR]
                        /\ UNCHANGED <<user_tokens, user_activity, completed>>
                   ELSE /\ user_tokens' =
                             update_tokens(created.tokens, "fitbit", u, pair)
                        /\ user_activity' = created.activity
                        /\ completed' = [completed EXCEPT ![u] = @ \cup {"fitbit"}]
                        /\ lastAuth' = [made EXCEPT !.status = FOUND]
        /\ UNCHANGED <<fitbitActs, stravaUploads, now, queue, task, lastPost,
                       handshake>>

\* app.py 405-439: /auth/strava
strava_oauth ==
    LET passed == /\ session.oauth2_fitbit_state
                  /\ session.fitbit_id # None
                  /\ database_user_check(session.fitbit_id)
    IN  /\ IF passed
           THEN /\ session' = [session EXCEPT !.oauth2_strava_state = TRUE]
                /\ lastAuth' = Reply("strava_oauth", FOUND)
           ELSE /\ lastAuth' = Reply("strava_oauth", UNAUTHORIZED)
                /\ UNCHANGED session
        /\ UNCHANGED <<user_tokens, user_activity, issued, live, fitbitActs,
                       stravaUploads, now, queue, task, lastPost, handshake,
                       completed, lastCreate>>

\* app.py 442-525: /auth_verify/strava; subscription is the status of the
\* answer to fitbit_webhook_subscribe, made with the access token the
\* source flow has just stored
strava_oauth_verify(args, exchange, subscription) ==
    LET u == session.fitbit_id
        passed == /\ args = "code"
                  /\ session.oauth2_strava_state
                  /\ u # None
        pair == issued[u]["strava"] + 1
        made == [Reply("strava_oauth_verify", 0) EXCEPT !.exchange = exchange]
    IN  /\ exchange # "no_user_id"
        /\ (passed /\ exchange_accepted(exchange)) =>
               /\ issued[u]["strava"] < MaxGen
               /\ database_user_check(u) =>
                      AccessAccepted("fitbit", u, get_access_token("fitbit", u))
        /\ IF args = "error"
           THEN /\ lastAuth' = Reply("strava_oauth_verify", FOUND)
                /\ UNCHANGED <<user_tokens, issued, live, completed>>
           ELSE IF ~passed
           THEN /\ lastAuth' = Reply("strava_oauth_verify", UNAUTHORIZED)
                /\ UNCHANGED <<user_tokens, issued, live, completed>>
           ELSE IF ~exchange_accepted(exchange)
           THEN /\ lastAuth' = [made EXCEPT !.status = UNAUTHORIZED]
                /\ UNCHANGED <<user_tokens, issued, live, completed>>
           ELSE /\ issued' = [issued EXCEPT ![u]["strava"] = pair]
                /\ live' = [live EXCEPT ![u]["strava"] = TRUE]
                /\ user_tokens' = update_tokens(user_tokens, "strava", u, pair)
                /\ completed' = [completed EXCEPT ![u] = @ \cup {"strava"}]
                /\ lastAuth' =
                     IF ~database_user_check(u)
                     THEN \* get_fitbit_access_token: TypeError, no request
                          [made EXCEPT !.status = SERVER_ERROR]
                     ELSE [made EXCEPT !.subscription = subscription,
                                       !.status =
                                          IF subscription_accepted(subscription)
                                          THEN FOUND ELSE UNAUTHORIZED]
        /\ UNCHANGED <<user_activity, session, fitbitActs, stravaUploads, now,
                       queue, task, lastPost, handshake, lastCreate>>

(***************************************************************************)
(* The environment: time passes, users record activities, tokens expire.   *)
(***************************************************************************)
Tick ==
    /\ now < MaxNow
    /\ now' = now + 1
    /\ UNCHANGED <<user_tokens, user_activity, issued, live, fitbitActs,
                   stravaUploads, queue, task, lastPost, web>>

NewActivity(u, kind) ==
    /\ database_user_check(u)
    /\ now \notin StartTimes(fitbitActs[u])
    /\ fitbitActs' = [fitbitActs EXCEPT ![u] = @ \cup {Activity(now, kind[1], kind[2])}]
    /\ task' = [t \in Workers |->
                  IF task[t].fitbit_id = u THEN [task[t] EXCEPT !.quiet = FALSE]
                  ELSE task[t]]
    /\ UNCHANGED <<user_tokens, user_activity, issued, live, stravaUploads,
                   now, queue, lastPost, web>>

Expire(u, p) ==
    /\ issued[u][p] > 0
    /\ live[u][p]
    /\ live' = [live EXCEPT ![u][p] = FALSE]
    /\ UNCHANGED <<user_tokens, user_activity, issued, fitbitActs,
                   stravaUploads, now, queue, task, lastPost, web>>

(***************************************************************************)
(* Specifications.                                                         *)
(***************************************************************************)
Registered == {"U1"}


Init ==
    /\ user_tokens = [u \in Registered |-> TokenRow(1, 1, 1, 1)]
    /\ user_activity = [u \in Registered |-> WatermarkDefault]
    /\ issued = [u \in Users |-> [p \in Providers |->
                        IF u \in Registered THEN 1 ELSE 0]]
    /\ live = [u \in Users |-> [p \in Providers |-> u \in Registered]]
    /\ fitbitActs = [u \in Users |-> {}]
    /\ stravaUploads = [u \in Users |-> [d \in 1..MaxNow |-> 0]]
    /\ now = 1
    /\ queue = [u \in Users |-> 0]
    /\ task = [t \in Workers |-> IdleTask]
    /\ lastPost = NoPost
    /\ handshake = NoGet
    /\ session = NoSession
    /\ completed = [u \in Users |-> IF u \in Registered THEN Providers ELSE {}]
    /\ lastAuth = NoReply
    /\ lastCreate = NoCreate

\* the activities a user may have recorded up to day MaxNow, one a day at
\* the most
SourceHistories ==
    {acts \in SUBSET {Activity(d, kind[1], kind[2]) :
                         d \in 1..MaxNow, kind \in ActivityKinds} :
        \A a, b \in acts : a.startTime = b.startTime => a = b}

\* a registered user has recorded activities, the destination holds some
\* activities of its own, and the horizon has reached the recorded days
InitBackfill ==
    /\ user_tokens = [u \in Registered |-> TokenRow(1, 1, 1, 1)]
    /\ user_activity = [u \in Registered |-> WatermarkDefault]
    /\ issued = [u \in Users |-> [p \in Providers |->
                        IF u \in Registered THEN 1 ELSE 0]]
    /\ live = [u \in Users |-> [p \in Providers |-> u \in Registered]]
    /\ \E acts \in SourceHistories :
          fitbitActs = [u \in Users |-> IF u \in Registered THEN acts ELSE {}]
    /\ \E held \in [1..MaxNow -> {0, 1}] :
          stravaUploads = [u \in Users |->
                             IF u \in Registered THEN held
                             ELSE [d \in 1..MaxNow |-> 0]]
    /\ now \in {d + HorizonDays : d \in 1..MaxNow}
    /\ queue = [u \in Users |-> 0]
    /\ task = [t \in Workers |-> IdleTask]
    /\ lastPost = NoPost
    /\ handshake = NoGet
    /\ session = NoSession
    /\ completed = [u \in Users |-> IF u \in Registered THEN Providers ELSE {}]
    /\ lastAuth = NoReply
    /\ lastCreate = NoCreate

TaskStep(t) ==
    \/ \E outcome \in {"ok", "err"} : Exec(t, outcome)
    \/ \E outcome \in {"ok", "fail", "missing"} : Refresh(t, outcome)
    \/ Store(t)
    \/ CheckWatermark(t)
    \/ WriteWatermark(t)

Environment ==
    \/ Tick
    \/ \E u \in Users, kind \in ActivityKinds : NewActivity(u, kind)
    \/ \E u \in Users, p \in Providers : Expire(u, p)

\* a POST with one of the given bodies and one of its headers or of the
\* given other headers
WebhookFrom(batches, others) ==
    \E data \in batches : \E header \in Headers(data) \cup others :
        WebhookPost(data, header)

Webhook == WebhookFrom(Batches, {})

\* the notification Fitbit sends about one new activity of one user
Notifications == {<<Message("activities", "user", u)>> : u \in Users}

\* the reconciliation tasks of the workers in any interleaving, while the
\* access tokens stay valid
Next ==
    \/ \E t \in Workers, u \in Registered : Deliver(t, u)
    \/ \E t \in Workers, outcome \in {"ok", "err"} : Exec(t, outcome)
    \/ \E t \in Workers : CheckWatermark(t)
    \/ \E t \in Workers : WriteWatermark(t)
    \/ Tick
    \/ \E u \in Users, kind \in ActivityKinds : NewActivity(u, kind)

Spec == Init /\ [][Next]_vars

\* one worker takes the tasks one after another; tokens expire and are
\* refreshed
NextSeq ==
    \/ \E u \in Registered : Deliver(1, u)
    \/ TaskStep(1)
    \/ Environment

SpecSeq == Init /\ [][NextSeq]_vars

\* one worker takes the tasks one after another while the access tokens
\* stay valid; each run remembers how the run before it ended
NextTwice ==
    \/ \E u \in Registered : DeliverInSuccession(1, u)
    \/ \E outcome \in {"ok", "err"} : Exec(1, outcome)
    \/ CheckWatermark(1)
    \/ WriteWatermark(1)
    \/ Tick
    \/ \E u \in Users, kind \in ActivityKinds : NewActivity(u, kind)

SpecTwice == Init /\ [][NextTwice]_vars

\* one worker runs the task when the recorded days lie at the horizon
NextBackfill ==
    \/ \E u \in Registered : Deliver(1, u)
    \/ \E outcome \in {"ok", "err"} : Exec(1, outcome)
    \/ CheckWatermark(1)
    \/ WriteWatermark(1)

SpecBackfill == InitBackfill /\ [][NextBackfill]_vars

\* a browser goes through the registration routes, in any order and with
\* any answers of the providers
NextRegister ==
    \/ fitbit_oauth
    \/ \E u \in Users, args \in RedirectArgs, exchange \in Exchanges,
          insert \in Inserts : fitbit_oauth_verify(u, args, exchange, insert)
    \/ strava_oauth
    \/ \E args \in RedirectArgs, exchange \in Exchanges,
          subscription \in {CREATED, OK, UNAUTHORIZED, SERVER_ERROR} :
          strava_oauth_verify(args, exchange, subscription)

SpecRegister == Init /\ [][NextRegister]_vars

\* the webhook endpoint receives batches of notifications and fills the
\* queue
NextWebhook == Webhook

SpecWebhook == Init /\ [][NextWebhook]_vars

\* the webhook endpoint receives the handshake and single notifications,
\* also about users who have not registered; the workers run the tasks it
\* schedules while the source has no activity to report
NextNotify ==
    \/ WebhookFrom(Notifications, ReplayedHeaders)
    \/ \E verify \in VerifyArgs, configured \in Configured :
          WebhookGet(verify, configured)
    \/ \E t \in Workers, u \in Users : StartTask(t, u)
    \/ \E t \in Workers, outcome \in {"ok", "err"} : Exec(t, outcome)

SpecNotify == Init /\ [][NextNotify]_vars

\* every user of the model has registered
InitAll ==
    /\ user_tokens = [u \in Users |-> TokenRow(1, 1, 1, 1)]
    /\ user_activity = [u \in Users |-> WatermarkDefault]
    /\ issued = [u \in Users |-> [p \in Providers |-> 1]]
    /\ live = [u \in Users |-> [p \in Providers |-> TRUE]]
    /\ fitbitActs = [u \in Users |-> {}]
    /\ stravaUploads = [u \in Users |-> [d \in 1..MaxNow |-> 0]]
    /\ now = 1
    /\ queue = [u \in Users |-> 0]
    /\ task = [t \in Workers |-> IdleTask]
    /\ lastPost = NoPost
    /\ handshake = NoGet
    /\ session = NoSession
    /\ completed = [u \in Users |-> Providers]
    /\ lastAuth = NoReply
    /\ lastCreate = NoCreate

\* one worker runs the tasks of several registered users one after another;
\* tokens expire and are refreshed
NextUsers ==
    \/ \E u \in Users : Deliver(1, u)
    \/ TaskStep(1)
    \/ \E u \in Users, kind \in ActivityKinds : NewActivity(u, kind)
    \/ \E u \in Users, p \in Providers : Expire(u, p)

SpecUsers == InitAll /\ [][NextUsers]_vars

\* database_create_user is called for any user, again and again, while a
\* worker runs the tasks of the registered user and moves the watermark
NextCreate ==
    \/ \E u \in Registered : Deliver(1, u)
    \/ Exec(1, "ok")
    \/ CheckWatermark(1)
    \/ WriteWatermark(1)
    \/ Tick
    \/ \E u \in Registered : NewActivity(u, <<"tracker", TRUE>>)
    \/ \E u \in Users, insert \in Inserts : CreateUser(u, insert)

SpecCreate == Init /\ [][NextCreate]_vars

\* the workers run tasks of one user at the same time while the tokens
\* expire: their refresh exchanges and token updates interleave
NextRace ==
    \/ \E t \in Workers, u \in Registered : Deliver(t, u)
    \/ \E t \in Workers : TaskStep(t)
    \/ \E u \in Registered : NewActivity(u, <<"tracker", TRUE>>)
    \/ \E u \in Registered, p \in Providers : Expire(u, p)

SpecRace == Init /\ [][NextRace]_vars

(***************************************************************************)
(* Properties.                                                             *)
(***************************************************************************)
Tasks == {task[t] : t \in Workers}

\* C1: the stored watermark of a user never decreases, whatever runs of
\* upload_latest_activities overlap: every write stores a value at least as
\* large as the value stored before it.
WatermarkNeverDecreases ==
    [][\A u \in DOMAIN user_activity : user_activity'[u] >= user_activity[u]]_vars

\* C2: under any interleaving of the tasks of one user, no source activity
\* is uploaded successfully to the destination more than once.
NoActivityUploadedTwice ==
    \A u \in Users : \A d \in DOMAIN stravaUploads[u] : stravaUploads[u][d] <= 1

\* C3 as stated: a call that follows another call for the same user with no
\* new source activity in between makes no upload request, whatever the
\* outcome of the uploads of the first call (here: a first call that made
\* upload requests).
SecondCallUploadsNothing ==
    \A tk \in Tasks :
        (tk.prev \in {"wrote", "attempted"} /\ tk.srcSame) => tk.attempts = 0

\* C3 amended: a call that follows a call which wrote the watermark, with no
\* new source activity since that call began, makes no upload request.
SecondCallAfterWriteUploadsNothing ==
    \A tk \in Tasks : (tk.prev = "wrote" /\ tk.srcSame) => tk.attempts = 0

SecondCallAfterWriteStopped ==
    \E tk \in Tasks : /\ tk.prev = "wrote"
                      /\ tk.srcSame
                      /\ tk.pc = "done"
                      /\ tk.attempts = 0

\* C4: the watermark of a user changes only in the write step of a run of
\* that user in which an upload was answered 201; a run without a successful
\* upload leaves it as it was.
WatermarkOnlyAfterSuccess ==
    [][\A u \in DOMAIN user_activity :
          user_activity'[u] # user_activity[u] =>
              \E t \in Workers : /\ task[t].fitbit_id = u
                                 /\ task[t].pc = "write_wm"
                                 /\ task[t].nsucc > 0]_vars

RunWithoutSuccessEnded ==
    \E tk \in Tasks : /\ tk.pc = "done"
                      /\ tk.attempts > 0
                      /\ tk.nsucc = 0
                      /\ ~tk.wrote
                      /\ user_activity[tk.fitbit_id] = WatermarkDefault

\* C5: one wrapped invocation executes the remote call at most twice and
\* makes at most one refresh exchange; a 401 of the second execution is
\* returned to the caller.
AtMostOneRefreshAndRetry ==
    \A tk \in Tasks :
        /\ tk.inv.execs <= 2
        /\ tk.inv.refreshes <= 1
        /\ (tk.inv.outcome = "returned" /\ tk.inv.execs = 2
               /\ tk.inv.last.status_code = UNAUTHORIZED)
             => tk.inv.ret.status_code = UNAUTHORIZED

SecondUnauthorizedReturned ==
    \E tk \in Tasks : /\ tk.inv.outcome = "returned"
                      /\ tk.inv.execs = 2
                      /\ tk.inv.refreshes = 1
                      /\ tk.inv.ret.status_code = UNAUTHORIZED

\* C6: a wrapped call whose first response is not 401 returns that response
\* after one execution and no refresh; a call whose first response is 401 and
\* whose execution after the refresh succeeds returns the response of that
\* execution, which is what the provider answers to a call that succeeds.
RefreshIsTransparent ==
    \A tk \in Tasks :
        tk.inv.outcome = "returned" =>
            /\ tk.inv.first.status_code # UNAUTHORIZED =>
                  /\ tk.inv.ret = tk.inv.first
                  /\ tk.inv.execs = 1
                  /\ tk.inv.refreshes = 0
            /\ (/\ tk.inv.first.status_code = UNAUTHORIZED
                /\ tk.inv.last.status_code = SuccessStatus(tk.inv.site))
                 => tk.inv.ret = tk.inv.last

RetriedCallReturnedActivities ==
    \E tk \in Tasks : /\ tk.inv.outcome = "returned"
                      /\ tk.inv.first.status_code = UNAUTHORIZED
                      /\ tk.inv.execs = 2
                      /\ tk.inv.ret.status_code = OK
                      /\ Len(tk.inv.ret.body) > 0

\* C7: when the refresh exchange fails (a status other than 200, or a body
\* without one of the tokens) the wrapped invocation ends with the exception
\* and the remote call is not executed a second time.
FailedRefreshEndsInvocation ==
    \A tk \in Tasks :
        tk.refreshFailed # "-" =>
            /\ tk.pc = "raised"
            /\ tk.inv.outcome = "raised"
            /\ tk.inv.execs = 1

RefreshFailedOnMissingToken ==
    \E tk \in Tasks : /\ tk.refreshFailed = "missing"
                      /\ tk.inv.outcome = "raised"
                      /\ tk.inv.refreshes = 1

\* C8: the step in which a refresh exchange fails leaves user_tokens, and so
\* the stored access and refresh tokens of the user, as they were.
FailedRefreshKeepsTokens ==
    [][\A t \in Workers :
          (task[t].refreshFailed = "-" /\ task'[t].refreshFailed # "-")
              => user_tokens' = user_tokens]_vars

RefreshFailedWithStoredTokens ==
    \E tk \in Tasks : /\ tk.refreshFailed = "fail"
                      /\ tk.inv.site = "upload"
                      /\ user_tokens[tk.fitbit_id].strava_access_token # 0
                      /\ user_tokens[tk.fitbit_id].strava_refresh_token # 0

\* C9: a failed token refresh inside a wrapped call does not end the task
\* with an unhandled exception.
FailedRefreshDoesNotCrashTask ==
    \A tk \in Tasks : tk.refreshFailed # "-" => tk.pc # "raised"

\* C10: after a webhook POST with a valid signature, every user named by at
\* least one matching entry of the batch got exactly one task from it.
OneTaskPerNamedUser ==
    lastPost.valid =>
        \A u \in Users : lastPost.named[u] >= 1 => lastPost.scheduled[u] = 1

UserNamedTwiceScheduledOnce ==
    /\ lastPost.valid
    /\ lastPost.status = NO_CONTENT
    /\ \E u \in Users : lastPost.named[u] = 2 /\ lastPost.scheduled[u] = 1

\* C11: a webhook POST whose signature check fails is answered 400 and puts
\* no task in the queue; a POST whose signature check passes is answered
\* 204, whether or not it scheduled a task.
SignatureDecidesAnswer ==
    [][/\ (~lastPost'.valid /\ lastPost' # lastPost) =>
             /\ lastPost'.status = BAD_REQUEST
             /\ queue' = queue
       /\ lastPost'.valid => lastPost'.status = NO_CONTENT]_vars

BadSignatureScheduledNothing ==
    /\ ~lastPost.valid
    /\ lastPost.header # <<>>
    /\ lastPost.status = BAD_REQUEST
    /\ \E u \in Users : lastPost.named[u] >= 1
    /\ \A u \in Users : queue[u] = 0

\* C12: the users a validly signed batch schedules a task for are exactly
\* the non-null ownerId values of its entries with collectionType
\* "activities" and ownerType "user"; other entries schedule nothing.
ScheduledAreActivityOwners ==
    lastPost.valid =>
        {u \in Users : lastPost.scheduled[u] > 0}
          = {lastPost.data[i].ownerId :
               i \in {j \in DOMAIN lastPost.data :
                        /\ lastPost.data[j].collectionType = "activities"
                        /\ lastPost.data[j].ownerType = "user"}} \ {None}

OtherEntriesScheduledNothing ==
    /\ lastPost.valid
    /\ \E i \in DOMAIN lastPost.data :
          /\ lastPost.data[i].ownerType = "other"
          /\ lastPost.data[i].ownerId = "U1"
    /\ \E i \in DOMAIN lastPost.data :
          /\ lastPost.data[i] = Message("activities", "user", "U2")
    /\ lastPost.scheduled["U1"] = 0
    /\ lastPost.scheduled["U2"] = 1

\* C13: fitbit_validate_signature is true exactly when the header is the
\* base64 HMAC digest of the body under the key client secret + "&"; it is
\* false for a missing header and for the signature of any other body.
SignatureValidExactlyOnMatch ==
    LET expected == b64encode(hmac_digest(<<CLIENT_SECRET, "&">>, lastPost.data))
    IN  /\ lastPost.valid <=> lastPost.header = <<expected>>
        /\ lastPost.header = <<>> => ~lastPost.valid
        /\ lastPost.valid =>
              \A d \in Batches \ {lastPost.data} :
                  ~fitbit_validate_signature(d, lastPost.header)

SignatureOfOtherBodyRejected ==
    /\ ~lastPost.valid
    /\ lastPost.status = BAD_REQUEST
    /\ \E d \in Batches : /\ d # lastPost.data
                           /\ fitbit_validate_signature(d, lastPost.header)

\* C14: the GET handshake is answered 204 only when the request carries a
\* verify parameter equal to the configured code, and 404 otherwise, a
\* request without verify parameter included.
HandshakeNeedsMatchingVerify ==
    /\ handshake.status = NO_CONTENT =>
          /\ handshake.verify # None
          /\ handshake.verify = handshake.configured
    /\ (handshake.status # 0 /\ handshake.verify = None) =>
          handshake.status = NOT_FOUND

\* C15: in a run that reaches the window fetch, the lower bound handed to
\* get_fitbit_activities_after_date is the later of today minus the horizon
\* and the start of the destination's most recent activity, and the horizon
\* value alone when the destination has none.
WindowStartsAtLaterOfHorizonAndDestination ==
    \A tk \in Tasks :
        (tk.pc = "after_date" /\ tk.inv.site = "strava_recent"
            /\ tk.inv.outcome = "returned") =>
            LET horizon == now - HorizonDays
                seen == tk.inv.ret.body
            IN  IF seen = <<>> THEN tk.after = horizon
                ELSE /\ tk.after >= horizon
                     /\ tk.after >= seen[1].start_date
                     /\ tk.after \in {horizon, seen[1].start_date}

HorizonLaterThanDestination ==
    \E tk \in Tasks : /\ tk.pc = "after_date"
                      /\ tk.inv.site = "strava_recent"
                      /\ tk.inv.outcome = "returned"
                      /\ tk.inv.ret.body # <<>>
                      /\ tk.inv.ret.body[1].start_date < now - HorizonDays
                      /\ tk.after = now - HorizonDays

\* C16: when the start time of the most recent source activity equals the
\* stored watermark, the run ends at the comparison: the most-recent fetch
\* is its only remote call, it makes no upload and writes nothing.
EqualWatermarkStopsRun ==
    [][\A t \in Workers :
          (/\ task[t].pc = "check_wm"
           /\ task[t].fitbit_id \in DOMAIN user_activity
           /\ task[t].latest = user_activity[task[t].fitbit_id]
           /\ task'[t].pc # "check_wm")
            => /\ task'[t].pc = "done"
               /\ task'[t].inv.site = "most_recent"
               /\ task'[t].attempts = 0
               /\ ~task'[t].wrote
               /\ user_activity' = user_activity
               /\ stravaUploads' = stravaUploads]_vars

RunStoppedAtWatermark ==
    \E tk \in Tasks : /\ tk.pc = "done"
                      /\ tk.latest # NoDate
                      /\ tk.latest = user_activity[tk.fitbit_id]
                      /\ tk.inv.site = "most_recent"
                      /\ tk.attempts = 0
                      /\ ~tk.wrote

ProcessActivityNeedsBoth ==
    [][\A t \in Workers :
          /\ (task'[t].succ # task[t].succ /\ task'[t].succ # NoDate) =>
                /\ task[t].pc = "upload"
                /\ task[t].tcx # NoDate
                /\ task'[t].inv.site = "upload"
                /\ task'[t].inv.ret.status_code = CREATED
          /\ (/\ task[t].pc = "tcx"
              /\ task'[t] # task[t]
              /\ task'[t].inv.site = "tcx"
              /\ task'[t].inv.outcome = "returned"
              /\ task'[t].inv.ret.status_code # OK)
               => /\ task'[t].pc # "upload"
                  /\ task'[t].succ = task[t].succ
                  /\ task'[t].attempts = task[t].attempts
                  /\ stravaUploads' = stravaUploads]_vars

ExportFailedNothingSubmitted ==
    \E tk \in Tasks : /\ tk.pc = "done"
                      /\ tk.inv.site = "tcx"
                      /\ tk.inv.outcome = "returned"
                      /\ tk.inv.ret.status_code # OK
                      /\ tk.attempts = 0
                      /\ tk.succ = NoDate

\* C19: a user has a row in user_tokens exactly when the user has completed
\* both the Fitbit and the Strava authorization flow.
CredentialRowIffBothFlows ==
    \A u \in Users : u \in DOMAIN user_tokens <=> completed[u] = Providers

\* C20: a task for a user without a row in user_tokens ends as a no-op: it
\* returns, without an unhandled exception.
UnregisteredUserTaskReturns ==
    \A tk \in Tasks :
        (tk.fitbit_id \in Users \ DOMAIN user_tokens /\ tk.pc \in Finished)
            => tk.pc = "done"

\* C21: a run of upload_latest_activities for one user leaves the stored
\* tokens and the watermark of every other user as they were and uploads
\* nothing for another user: whenever a row or the uploads of a user change,
\* the step is one of a running task of that user.
RunTouchesOnlyItsUser ==
    [][\A v \in Users :
          (\/ user_tokens'[v] # user_tokens[v]
           \/ user_activity'[v] # user_activity[v]
           \/ stravaUploads'[v] # stravaUploads[v])
             => \E t \in Workers : /\ task[t].fitbit_id = v
                                  /\ task[t].pc \notin Finished
                                  /\ task'[t] # task[t]]_vars

OtherUserUntouchedByRun ==
    \E tk \in Tasks : /\ tk.fitbit_id = "U1"
                      /\ tk.pc = "done"
                      /\ tk.wrote
                      /\ user_tokens["U1"] # TokenRow(1, 1, 1, 1)
                      /\ user_tokens["U2"] = TokenRow(1, 1, 1, 1)
                      /\ user_activity["U2"] = WatermarkDefault
                      /\ \E a \in fitbitActs["U2"] : Eligible(a)
                      /\ \A d \in 1..MaxNow : stravaUploads["U2"][d] = 0

\* C22: an OAuth completion whose token exchange is answered with a status
\* other than 200, or without access_token, refresh_token or (Fitbit flow)
\* user_id, is answered 401 and stores nothing: no row is created and no
\* stored token changes in that request.
FailedExchangePersistsNothing ==
    [][(/\ lastAuth'.route \in {"fitbit_oauth_verify", "strava_oauth_verify"}
        /\ lastAuth'.exchange \in Exchanges \ {"ok"})
          => /\ lastAuth'.status = UNAUTHORIZED
             /\ user_tokens' = user_tokens
             /\ user_activity' = user_activity
             /\ session' = session]_vars

ExchangeWithoutFieldRejected ==
    /\ lastAuth.route = "strava_oauth_verify"
    /\ lastAuth.exchange = "no_refresh_token"
    /\ lastAuth.status = UNAUTHORIZED
    /\ session.fitbit_id = "U2"
    /\ user_tokens["U2"] = TokenRow(1, 1, 0, 0)

\* C23: at the end of the Strava completion a subscription response of 201
\* or 200 is answered with the redirect to the success page, and any other
\* subscription response with 401.
SubscriptionDecidesRegistration ==
    (lastAuth.route = "strava_oauth_verify" /\ lastAuth.subscription # 0)
        => /\ lastAuth.subscription \in {CREATED, OK} => lastAuth.status = FOUND
           /\ lastAuth.subscription \notin {CREATED, OK}
                 => lastAuth.status = UNAUTHORIZED

ExistingSubscriptionCompletes ==
    /\ lastAuth.route = "strava_oauth_verify"
    /\ lastAuth.subscription = OK
    /\ lastAuth.status = FOUND
    /\ completed[session.fitbit_id] = Providers

\* C24: when the most-recent call to Fitbit returns a status other than 200
\* or no activity, or the most-recent call to Strava or the window fetch
\* returns a status other than 200, the run ends at that return: it has made
\* and makes no export fetch and no upload request, and the watermark is as
\* it was.
FailedFetchEndsRun ==
    [][\A t \in Workers :
          /\ (/\ task[t].pc \in {"most_recent", "strava_recent", "after_date"}
              /\ task'[t] # task[t]
              /\ task'[t].inv.site = task[t].pc
              /\ task'[t].inv.outcome = "returned"
              /\ \/ task'[t].inv.ret.status_code # OK
                 \/ task[t].pc = "most_recent" /\ task'[t].inv.ret.body = <<>>)
               => /\ task'[t].pc = "done"
                  /\ task'[t].attempts = 0
                  /\ ~task'[t].wrote
                  /\ user_activity' = user_activity
                  /\ stravaUploads' = stravaUploads
          /\ task[t].pc \in {"most_recent", "check_wm", "strava_recent",
                              "after_date"}
               => /\ task[t].inv.site \notin {"tcx", "upload"}
                  /\ task[t].tcx = NoDate
                  /\ task[t].attempts = 0]_vars

WindowFetchFailedRunEnded ==
    \E tk \in Tasks : /\ tk.pc = "done"
                      /\ tk.inv.site = "after_date"
                      /\ tk.inv.outcome = "returned"
                      /\ tk.inv.ret.status_code = SERVER_ERROR
                      /\ tk.attempts = 0
                      /\ ~tk.wrote
                      /\ \E a \in fitbitActs[tk.fitbit_id] : Eligible(a)
                      /\ user_activity[tk.fitbit_id] = WatermarkDefault

\* C25: the loop attempts an upload for exactly the activities of the
\* fetched window whose logType is "tracker" and whose tracker features
\* include GPS, in the order of the window, which is ascending by start
\* time: from the window, and from each activity it has processed, the loop
\* goes to the next activity that passes both tests and skips only
\* activities that fail one; export fetch and upload request are those of
\* the activity the loop is at.
UploadsAreTrackerGpsInOrder ==
    [][\A t \in Workers :
          LET tk == task[t]
              new == task'[t]
              passes(a) == a.logType = "tracker" /\ a.gps
              fetched == /\ tk.pc = "after_date"
                         /\ new # tk
                         /\ new.inv.site = "after_date"
                         /\ new.inv.outcome = "returned"
                         /\ new.inv.ret.status_code = OK
              processed == /\ tk.pc \in {"tcx", "upload"}
                           /\ new.todo # tk.todo
                           /\ new.inv.outcome = "returned"
                           /\ ~(tk.pc = "tcx" /\ new.pc = "upload")
              rest == IF fetched THEN new.inv.ret.body ELSE Tail(tk.todo)
              first == {i \in 1..Len(rest) :
                          /\ passes(rest[i])
                          /\ \A j \in 1..(i - 1) : ~passes(rest[j])}
          IN  /\ fetched =>
                    \A i, j \in 1..Len(rest) :
                        i < j => rest[i].startTime < rest[j].startTime
              /\ (fetched \/ processed) =>
                    IF first = {}
                    THEN new.pc \in {"write_wm", "done"}
                    ELSE /\ new.pc = "tcx"
                         /\ \E i \in first :
                               new.todo = SubSeq(rest, i, Len(rest))
              /\ new.pc \in {"tcx", "upload"} => passes(Head(new.todo))
              /\ new.pc = "upload" => new.tcx = Head(new.todo).logId
              /\ new.attempts > tk.attempts =>
                    /\ tk.pc = "upload"
                    /\ passes(Head(tk.todo))]_vars

ManualEntrySkippedTrackerAttempted ==
    \E tk \in Tasks : /\ tk.pc = "tcx"
                      /\ tk.inv.site = "after_date"
                      /\ Len(tk.inv.ret.body) = 2
                      /\ tk.inv.ret.body[1].logType = "manual"
                      /\ tk.todo = <<tk.inv.ret.body[2]>>

\* C26: a failed upload of an activity, by an export fetch that does not
\* return 200 or an upload that does not return 201, ends only that
\* activity: the same run goes on to the next activity of the window that
\* passes the two tests.
FailedUploadAbortsOnlyThatActivity ==
    [][\A t \in Workers :
          LET tk == task[t]
              new == task'[t]
              later == {i \in 2..Len(tk.todo) :
                           tk.todo[i].logType = "tracker" /\ tk.todo[i].gps}
          IN  (/\ tk.pc \in {"tcx", "upload"}
               /\ new.todo # tk.todo
               /\ new.inv.site = tk.pc
               /\ new.inv.outcome = "returned"
               /\ new.inv.ret.status_code # SuccessStatus(tk.pc)
               /\ later # {})
                => /\ new.pc = "tcx"
                   /\ new.ph = "call"
                   /\ new.fitbit_id = tk.fitbit_id
                   /\ Head(new.todo) = tk.todo[MinOf(later)]
                   /\ new.succ = tk.succ]_vars

NextActivityAttemptedAfterFailure ==
    \E tk \in Tasks : /\ tk.pc = "tcx"
                      /\ tk.ph = "call"
                      /\ tk.inv.site = "upload"
                      /\ tk.inv.ret.status_code = SERVER_ERROR
                      /\ tk.attempts = 1
                      /\ tk.nsucc = 0
                      /\ Head(tk.todo).startTime = 2

\* C27: a run writes the watermark at most once, and only after its last
\* upload attempt has returned: the write is the last step of the run, made
\* when the loop has no activity left, and no upload request of the run
\* follows it.
WatermarkWrittenOnceAfterLoop ==
    [][\A t \in Workers :
          LET tk == task[t]
              new == task'[t]
          IN  /\ (new.wrote /\ ~tk.wrote) =>
                    /\ tk.pc = "write_wm"
                    /\ tk.todo = <<>>
                    /\ tk.ph = "-"
                    /\ new.pc = "done"
                    /\ new.attempts = tk.attempts
              /\ tk.wrote => /\ tk.pc = "done"
                             /\ user_activity' = user_activity
                             /\ stravaUploads' = stravaUploads
                             /\ new.wrote => /\ new.pc = "done"
                                             /\ new.attempts = tk.attempts
              /\ user_activity' # user_activity =>
                    \E w \in Workers : task'[w].wrote /\ ~task[w].wrote]_vars

WatermarkWrittenAfterTwoAttempts ==
    \E tk \in Tasks : /\ tk.pc = "done"
                      /\ tk.wrote
                      /\ tk.attempts = 2
                      /\ tk.inv.site = "upload"
                      /\ user_activity[tk.fitbit_id] = tk.latest

\* C28: an activity that passes the two tests and lies inside the horizon,
\* and whose upload was refused in one run, is attempted again by a later
\* run of the same user, also when another activity of the first run was
\* uploaded: a run that follows a run with a refused upload, finds the
\* source as that run found it and gets a successful answer to every call
\* it makes, makes an upload request.
RefusedUploadAttemptedByNextRun ==
    \A tk \in Tasks :
        (/\ tk.pc = "done"
         /\ tk.prevFailed
         /\ tk.srcSame
         /\ tk.inv.outcome = "returned"
         /\ tk.inv.ret.status_code = SuccessStatus(tk.inv.site))
            => tk.attempts > 0

\* C30: the access token and the refresh token that the store holds for a
\* user and a provider always come from the same token response, also while
\* refreshes of several workers interleave.
TokensRotateTogether ==
    \A u \in DOMAIN user_tokens : \A p \in Providers :
        get_access_token(p, u) = get_refresh_token(p, u)

RefreshedPairStoredWhole ==
    \E tk \in Tasks : /\ tk.inv.site = "upload"
                      /\ tk.inv.refreshes = 1
                      /\ tk.inv.outcome = "returned"
                      /\ user_tokens[tk.fitbit_id] = TokenRow(1, 1, 2, 2)

\* C31: every execution of a wrapped call, the one after a refresh included,
\* sends the access token that the store holds when it is made; the retry
\* after a refresh of the invocation sends a token that was stored after the
\* one of the first execution.
EveryExecutionReadsTheStore ==
    [][\A t \in Workers :
          LET tk == task[t]
              new == task'[t]
              u == tk.fitbit_id
              executed == /\ tk.pc \in CallSites
                          /\ tk.ph \in {"call", "retry"}
                          /\ new.ph # tk.ph \/ new.pc # tk.pc \/ new.inv # tk.inv
                          /\ u \in DOMAIN user_tokens
          IN  executed =>
                 /\ new.inv.token = get_access_token(SiteProvider(tk.pc), u)
                 /\ tk.ph = "retry" => new.inv.token > tk.inv.token]_vars

RetrySentRefreshedToken ==
    \E tk \in Tasks : /\ tk.inv.site = "upload"
                      /\ tk.inv.execs = 2
                      /\ tk.inv.refreshes = 1
                      /\ tk.inv.first.status_code = UNAUTHORIZED
                      /\ tk.inv.ret.status_code = CREATED
                      /\ tk.inv.token = 2
                      /\ get_access_token("strava", tk.fitbit_id) = 2

\* C32: the watermark row is 1:1 with the credential row: a user has a row
\* in user_activity exactly when the user has one in user_tokens, a new
\* watermark is the far-past default, and database_create_user called for
\* a user who is present returns False and changes neither row.
WatermarkRowOneToOne ==
    [][/\ DOMAIN user_activity' = DOMAIN user_tokens'
       /\ \A u \in DOMAIN user_activity' \ DOMAIN user_activity :
             user_activity'[u] = WatermarkDefault
       /\ (/\ lastCreate' # lastCreate
           /\ lastCreate'.fitbit_id \in DOMAIN user_tokens)
             => /\ lastCreate'.user_added = "False"
                /\ user_tokens' = user_tokens
                /\ user_activity' = user_activity
       /\ (/\ lastCreate' # lastCreate
           /\ lastCreate'.fitbit_id \notin DOMAIN user_tokens)
             => lastCreate'.user_added \in {"True", "raised"}]_vars

ReRegistrationKeptWatermark ==
    /\ lastCreate = [fitbit_id |-> "U1", user_added |-> "False"]
    /\ user_activity["U1"] # WatermarkDefault
    /\ "U2" \in DOMAIN user_tokens
    /\ user_activity["U2"] = WatermarkDefault

\* C33: a token refresh for one provider changes only the tokens of that
\* provider in the row of the user of the run: the tokens of the other
\* provider, the rows of other users and the watermark stay as they were;
\* and apart from the token update of a refresh a run writes nothing but
\* the watermark.
RefreshWritesOnlyItsProvider ==
    [][/\ user_tokens' # user_tokens =>
             /\ user_activity' = user_activity
             /\ DOMAIN user_tokens' = DOMAIN user_tokens
             /\ \E t \in Workers :
                   LET u == task[t].fitbit_id
                       p == SiteProvider(task[t].pc)
                   IN  /\ task[t].pc \in CallSites
                       /\ task[t].ph = "store"
                       /\ task'[t].ph = "retry"
                       /\ \A v \in DOMAIN user_tokens \ {u} :
                             user_tokens'[v] = user_tokens[v]
                       /\ \A q \in Providers \ {p} :
                             /\ user_tokens'[u][AccessColumn(q)]
                                  = user_tokens[u][AccessColumn(q)]
                             /\ user_tokens'[u][RefreshColumn(q)]
                                  = user_tokens[u][RefreshColumn(q)]
       /\ user_activity' # user_activity =>
             /\ user_tokens' = user_tokens
             /\ \E t \in Workers : /\ task[t].pc = "write_wm"
                                  /\ task'[t].pc = "done"
                                  /\ \A v \in DOMAIN user_activity
                                          \ {task[t].fitbit_id} :
                                        user_activity'[v] = user_activity[v]]_vars

FitbitRefreshedStravaKept ==
    \E tk \in Tasks : /\ tk.pc = "done"
                      /\ tk.wrote
                      /\ user_tokens[tk.fitbit_id] = TokenRow(2, 2, 1, 1)
                      /\ user_activity[tk.fitbit_id] # WatermarkDefault

====
